---- MODULE Spec2Model ----
(***************************************************************************)
(* Forward (tangent) mode of CoDiPack: the forward tape, ForwardEvaluation, *)
(* and the unary expression node generated by unaryExpression.tpp.          *)
(*                                                                         *)
(* Real is modelled by the integers: every operation of the code that is    *)
(* modelled (+, *, unary minus, comparison with zero) is exact on them.     *)
(* An active variable is a pair (primal value, gradient data); for the      *)
(* forward tape the gradient data is the tangent itself.                    *)
(***************************************************************************)
EXTENDS Integers, Sequences, FiniteSets, TLC

VARIABLES
    val,      \* val[v]: primal value of active variable v
    grad,     \* grad[v]: gradient data (tangent) of active variable v
    written,  \* history: the content most recently written to each handle
    last,     \* history: the last tape call, its arguments and the state before it
    calls,    \* history: calcGradient / pushJacobi calls made by the last tape call
    expr,     \* an expression object kept alive across statements (auto e = f(x))
    born      \* history: the primal values expr's nodes had to get at construction

vars == <<val, grad, written, last, calls, expr, born>>

\* ------------------------------------------------------------------ bounds

\* Passive constants and initial primal values range over 0..MaxConst; negative
\* operand values arise inside expressions, under unary minus.
MaxConst == 1
\* Tangents seeded with setGradient range over -MaxSeed..MaxSeed.
MaxSeed == 1
\* A tape call is explored when the tangents it leaves are in -MaxTan..MaxTan.
MaxTan == 4
\* Operation nodes nested above a leaf in one expression.
MaxDepth == 2

Vars == {"x", "y"}
Consts == 0..MaxConst
Seeds == (0 - MaxSeed)..MaxSeed
Tans == (0 - MaxTan)..MaxTan

\* ------------------------------------------------- elementary operations

\* The instances of the generator (NAME): integer-exact members of the
\* catalogue.  "exp" is a base-2 stand-in whose gradient formula, like
\* gradExp, returns the memoized result.
Ops == {"neg", "sqr", "exp"}

Abs(a) == IF a < 0 THEN 0 - a ELSE a

RECURSIVE Pow2(_)
Pow2(n) == IF n <= 0 THEN 1 ELSE 2 * Pow2(n - 1)

\* PRIMAL_CALL(a.getValue())
PRIMAL_CALL(op, a) ==
    CASE op = "neg" -> 0 - a
      [] op = "sqr" -> a * a
      [] op = "exp" -> Pow2(Abs(a))

\* GRADIENT_FUNC(a_.getValue(), result_)
GRADIENT_FUNC(op, a, result) ==
    CASE op = "neg" -> 0 - 1
      [] op = "sqr" -> 2 * a
      [] op = "exp" -> result

\* ------------------------------------------------------------ expressions

None == [kind |-> "none"]

\* An active variable used as an expression: a reference to the variable.
VarRef(v) == [kind |-> "var", var |-> v]

\* ActiveReal::getValue / getGradient of a variable.
ActiveGetValue(v) == val[v]
ActiveGetGradient(v, heap) == heap[v]

\* ActiveReal's copy constructor: initGradientData, then the tape's store from
\* an active variable: the copy holds the value and the tangent of the source.
CopyActive(v) ==
    [kind |-> "leaf", var |-> v, value |-> ActiveGetValue(v),
     grad |-> ActiveGetGradient(v, grad)]

\* The variant that keeps a reference to the operand (const A& a_).
CaptureByReference(a) == a

\* const A a_;  a_(a.cast()): the node holds its operand by value, so an
\* active variable is copied into the node.
CaptureOperand(a) == IF a.kind = "var" THEN CopyActive(a.var) ELSE a

\* getValue() of any expression: a variable reads its primal value, a copy its
\* own, an operation node its memoized result_.
GetValue(e) ==
    CASE e.kind = "var" -> ActiveGetValue(e.var)
      [] e.kind = "leaf" -> e.value
      [] OTHER -> e.result

\* The variant of the constructor that forgets the primal call.
OPNoPrimal(op, a) ==
    [kind |-> "un", op |-> op, a |-> CaptureOperand(a), result |-> GetValue(a)]

\* OP(const Expression<Real, A>& a): a_(a.cast()), result_(PRIMAL_CALL(a.getValue()))
OP(op, a) ==
    [kind |-> "un", op |-> op, a |-> CaptureOperand(a),
     result |-> PRIMAL_CALL(op, GetValue(a))]

\* The binary addition node, the two-operand instance of the same generator.
AddNode(a, b) ==
    [kind |-> "add", a |-> CaptureOperand(a), b |-> CaptureOperand(b),
     result |-> GetValue(a) + GetValue(b)]

\* Shapes of source expressions: what the program text of a right hand side
\* looks like, before any node is constructed.
RECURSIVE Shapes(_)
Shapes(d) ==
    IF d = 0 THEN {VarRef(v) : v \in Vars}
    ELSE Shapes(d - 1)
         \cup {[kind |-> "un", op |-> o, a |-> s] : o \in Ops, s \in Shapes(d - 1)}
         \cup {[kind |-> "add", a |-> s, b |-> VarRef(v)] :
                 s \in Shapes(d - 1), v \in Vars}

\* The right hand sides explored.
RhsShapes == Shapes(MaxDepth) \ Shapes(0)

\* FUNC(a): evaluating the program text constructs the nodes, innermost first.
RECURSIVE Construct(_)
Construct(s) ==
    CASE s.kind = "var" -> s
      [] s.kind = "un" -> OP(s.op, Construct(s.a))
      [] s.kind = "add" -> AddNode(Construct(s.a), Construct(s.b))

\* Operand positions below a node: <<>> is the root, 1 the operand a_, 2 b_.
RECURSIVE Paths(_)
Paths(e) ==
    CASE e.kind = "un" -> {<<>>} \cup {<<1>> \o p : p \in Paths(e.a)}
      [] e.kind = "add" -> {<<>>} \cup {<<1>> \o p : p \in Paths(e.a)}
                                  \cup {<<2>> \o p : p \in Paths(e.b)}
      [] OTHER -> {<<>>}

RECURSIVE Sub(_, _)
Sub(e, p) ==
    IF p = <<>> THEN e
    ELSE Sub(IF Head(p) = 1 THEN e.a ELSE e.b, Tail(p))

LeafVars(e) == {Sub(e, p).var : p \in {q \in Paths(e) : Sub(e, q).kind \in {"var", "leaf"}}}

\* --------------------------------------------------------- the forward tape

\* Real(): the value-initialized real.
Zero == 0

\* The variant of pushJacobi that overwrites the accumulator.
pushJacobiOverwrite(lhsTangent, jacobi, value, curTangent) == jacobi * curTangent

\* pushJacobi(lhsTangent, value, curTangent): lhsTangent += curTangent
pushJacobiUnit(lhsTangent, value, curTangent) == lhsTangent + curTangent

\* pushJacobi(lhsTangent, jacobi, value, curTangent): lhsTangent += jacobi * curTangent
pushJacobi(lhsTangent, jacobi, value, curTangent) == lhsTangent + jacobi * curTangent

\* One entry of the call log.
Entry(fn, path, one, mult, tan) ==
    [fn |-> fn, path |-> path, one |-> one, mult |-> mult, tan |-> tan]

\* The gradient data a leaf hands to the tape: its own for a copy, the
\* variable's for a reference.
GradientDataOf(e, heap) ==
    IF e.kind = "var" THEN ActiveGetGradient(e.var, heap) ELSE e.grad

\* A propagation runs on st = [heap, log]: the tangents of all variables and
\* the calls made so far.  tgt names the variable whose gradient data the
\* reference `gradient` designates.

\* ActiveReal::calcGradient(gradient): pushJacobi(gradient, value, gradientData)
ActiveCalcGradient1(e, st, tgt, path) ==
    [heap |-> [st.heap EXCEPT ![tgt] =
                 pushJacobiUnit(st.heap[tgt], GetValue(e), GradientDataOf(e, st.heap))],
     log |-> Append(st.log,
                    Entry("pushJacobi", path, TRUE, 1, GradientDataOf(e, st.heap)))]

\* ActiveReal::calcGradient(gradient, multiplier):
\* pushJacobi(gradient, multiplier, value, gradientData)
ActiveCalcGradient2(e, st, tgt, multiplier, path) ==
    [heap |-> [st.heap EXCEPT ![tgt] =
                 pushJacobi(st.heap[tgt], multiplier, GetValue(e),
                            GradientDataOf(e, st.heap))],
     log |-> Append(st.log,
                    Entry("pushJacobi", path, FALSE, multiplier,
                          GradientDataOf(e, st.heap)))]

RECURSIVE calcGradient1(_, _, _, _), calcGradient2(_, _, _, _, _)

\* The variant that forgets the incoming multiplier.
OPcalcGradient2NoMultiplier(e, st, tgt, multiplier, path) ==
    calcGradient2(e.a, st, tgt, GRADIENT_FUNC(e.op, GetValue(e.a), e.result),
                  path \o <<1>>)

\* The variant that hands the Jacobian down to the operand twice.
OPcalcGradient1Twice(e, st, tgt, path) ==
    calcGradient2(e.a,
                  calcGradient2(e.a, st, tgt,
                                GRADIENT_FUNC(e.op, GetValue(e.a), e.result),
                                path \o <<1>>),
                  tgt, GRADIENT_FUNC(e.op, GetValue(e.a), e.result), path \o <<1>>)

\* OP::calcGradient(gradient):
\*   a_.calcGradient(gradient, GRADIENT_FUNC(a_.getValue(), result_))
OPcalcGradient1(e, st, tgt, path) ==
    calcGradient2(e.a, st, tgt, GRADIENT_FUNC(e.op, GetValue(e.a), e.result),
                  path \o <<1>>)

\* OP::calcGradient(gradient, multiplier):
\*   a_.calcGradient(gradient, GRADIENT_FUNC(a_.getValue(), result_) * multiplier)
OPcalcGradient2(e, st, tgt, multiplier, path) ==
    calcGradient2(e.a, st, tgt,
                  GRADIENT_FUNC(e.op, GetValue(e.a), e.result) * multiplier,
                  path \o <<1>>)

\* Addition: both Jacobians are 1, each operand is handed what came in.
AddCalcGradient1(e, st, tgt, path) ==
    calcGradient1(e.b, calcGradient1(e.a, st, tgt, path \o <<1>>), tgt, path \o <<2>>)

AddCalcGradient2(e, st, tgt, multiplier, path) ==
    calcGradient2(e.b, calcGradient2(e.a, st, tgt, multiplier, path \o <<1>>),
                  tgt, multiplier, path \o <<2>>)

\* The static dispatch of e.calcGradient(gradient) on the type of e; every
\* call is logged on entry.
calcGradient1(e, st, tgt, path) ==
    LET st1 == [st EXCEPT !.log = Append(@, Entry("calcGradient", path, TRUE, 1, 0))]
    IN  CASE e.kind = "un" -> OPcalcGradient1(e, st1, tgt, path)
          [] e.kind = "add" -> AddCalcGradient1(e, st1, tgt, path)
          [] OTHER -> ActiveCalcGradient1(e, st1, tgt, path)

calcGradient2(e, st, tgt, multiplier, path) ==
    LET st1 == [st EXCEPT
                  !.log = Append(@, Entry("calcGradient", path, FALSE, multiplier, 0))]
    IN  CASE e.kind = "un" -> OPcalcGradient2(e, st1, tgt, multiplier, path)
          [] e.kind = "add" -> AddCalcGradient2(e, st1, tgt, multiplier, path)
          [] OTHER -> ActiveCalcGradient2(e, st1, tgt, multiplier, path)

\* The result of a tape call: the new values, the new tangents, the calls made.
Outcome(v, g, l) == [val |-> v, grad |-> g, log |-> l]

\* The variant of the general store that accumulates without resetting.
storeRhsNoReset(lhs, rhs) ==
    LET r == calcGradient1(rhs, [heap |-> grad, log |-> <<>>], lhs, <<>>)
    IN  Outcome(val, r.heap, r.log)

\* store(value, lhsTangent, const Rhs& rhs):
\*   lhsTangent = Real(); rhs.calcGradient(lhsTangent);
storeRhs(lhs, rhs) ==
    LET r == calcGradient1(rhs, [heap |-> [grad EXCEPT ![lhs] = Zero], log |-> <<>>],
                           lhs, <<>>)
    IN  Outcome(val, r.heap, r.log)

\* The variant that sends an active right hand side through the propagation.
storeActiveRealByPropagation(lhs, src) ==
    LET r == calcGradient1(VarRef(src),
                           [heap |-> [grad EXCEPT ![lhs] = Zero], log |-> <<>>],
                           lhs, <<>>)
    IN  Outcome([val EXCEPT ![lhs] = ActiveGetValue(src)], r.heap, r.log)

\* store(value, lhsTangent, const ActiveReal& rhs):
\*   lhsTangent = rhs.getGradient(); value = rhs.getValue();
storeActiveReal(lhs, src) ==
    Outcome([val EXCEPT ![lhs] = ActiveGetValue(src)],
            [grad EXCEPT ![lhs] = ActiveGetGradient(src, grad)], <<>>)

\* The variant that keeps the tangent of the target.
storePassiveRealKeepTangent(lhs, rhs) ==
    Outcome([val EXCEPT ![lhs] = rhs], grad, <<>>)

\* store(value, tangent, const PassiveReal& rhs): tangent = Real(); value = rhs;
storePassiveReal(lhs, rhs) ==
    Outcome([val EXCEPT ![lhs] = rhs], [grad EXCEPT ![lhs] = Zero], <<>>)

\* The variant that leaves the tangent as it is.
initGradientDataNoop(h) == Outcome(val, grad, <<>>)

\* initGradientData(value, tangent): tangent = Real();
initGradientData(h) == Outcome(val, [grad EXCEPT ![h] = Zero], <<>>)

\* destroyGradientData(value, tangent): nothing to do.
destroyGradientData(h) == Outcome(val, grad, <<>>)

\* setGradient(tangent, newTangent): tangent = newTangent;
setGradient(h, newTangent) == Outcome(val, [grad EXCEPT ![h] = newTangent], <<>>)

\* getGradient(tangent): return tangent;
getGradient(h) == grad[h]

\* gradient(tangent): return tangent;  a reference to the handle itself.
gradient(h) == h

\* ------------------------------------------------- reference semantics

\* The value of a source expression under a valuation of the variables.
RECURSIVE Eval(_, _)
Eval(s, v) ==
    CASE s.kind = "var" -> v[s.var]
      [] s.kind = "un" -> PRIMAL_CALL(s.op, Eval(s.a, v))
      [] s.kind = "add" -> Eval(s.a, v) + Eval(s.b, v)

\* The forward AD equation  dy = df/dx(x) * dx  of a source expression, under
\* a valuation v and tangents t of the variables.
RECURSIVE Tangent(_, _, _)
Tangent(s, v, t) ==
    CASE s.kind = "var" -> t[s.var]
      [] s.kind = "un" ->
           GRADIENT_FUNC(s.op, Eval(s.a, v), Eval(s, v)) * Tangent(s.a, v, t)
      [] s.kind = "add" -> Tangent(s.a, v, t) + Tangent(s.b, v, t)

\* The total derivative a constructed expression carries: a function of the
\* nodes alone (captured values, captured tangents, memoized results).
RECURSIVE NodeTangent(_)
NodeTangent(e) ==
    CASE e.kind = "var" -> grad[e.var]
      [] e.kind = "leaf" -> e.grad
      [] e.kind = "un" ->
           GRADIENT_FUNC(e.op, GetValue(e.a), e.result) * NodeTangent(e.a)
      [] e.kind = "add" -> NodeTangent(e.a) + NodeTangent(e.b)

\* ------------------------------------------------------------------ state

\* The record of a tape call: what was called on which handle h, with which
\* source variable, numeric argument, right hand side (as written and as
\* constructed), what it returned, and the state it started from.
Call(op, h, src, arg, shape, rhs, ret) ==
    [op |-> op, h |-> h, src |-> src, arg |-> arg, shape |-> shape, rhs |-> rhs,
     ret |-> ret, preVal |-> val, preGrad |-> grad]

\* No call has returned since the program moved on.
NoCall ==
    [op |-> "none", h |-> "x", src |-> "x", arg |-> 0, shape |-> None, rhs |-> None,
     ret |-> 0, preVal |-> <<>>, preGrad |-> <<>>]

Idle == last.op = "none"

\* Each active variable was constructed (initGradientData) and given a value.
Init ==
    /\ val \in [Vars -> Consts]
    /\ grad = [v \in Vars |-> Zero]
    /\ written = [v \in Vars |-> Zero]
    /\ last = NoCall
    /\ calls = <<>>
    /\ expr = None
    /\ born = <<>>

\* A tape call runs to its return: out is what it leaves, w what the handles
\* were last given, l the record of the call.
Apply(out, w, l) ==
    /\ Idle
    /\ \A v \in Vars : out.grad[v] \in Tans
    /\ val' = out.val
    /\ grad' = out.grad
    /\ calls' = out.log
    /\ written' = w
    /\ last' = l

\* ---------------------------------------------------------------- actions

\* The constructor of an active variable calls initGradientData.
CallInitGradientData(h) ==
    /\ Apply(initGradientData(h), [written EXCEPT ![h] = 0],
             Call("initGradientData", h, h, 0, None, None, 0))
    /\ UNCHANGED <<expr, born>>

\* The destructor of an active variable calls destroyGradientData.
CallDestroyGradientData(h) ==
    /\ Apply(destroyGradientData(h), written,
             Call("destroyGradientData", h, h, 0, None, None, 0))
    /\ UNCHANGED <<expr, born>>

CallSetGradient(h, t) ==
    /\ Apply(setGradient(h, t), [written EXCEPT ![h] = t],
             Call("setGradient", h, h, t, None, None, 0))
    /\ UNCHANGED <<expr, born>>

CallGetGradient(h) ==
    /\ Apply(Outcome(val, grad, <<>>), written,
             Call("getGradient", h, h, 0, None, None, getGradient(h)))
    /\ UNCHANGED <<expr, born>>

\* gradient(h) returns the handle; reading through the reference gives its content.
CallGradient(h) ==
    /\ Apply(Outcome(val, grad, <<>>), written,
             Call("gradient", h, gradient(h), 0, None, None, grad[gradient(h)]))
    /\ UNCHANGED <<expr, born>>

\* lhs = c
AssignPassive(lhs, c) ==
    /\ Apply(storePassiveReal(lhs, c), [written EXCEPT ![lhs] = 0],
             Call("storePassive", lhs, lhs, c, None, None, 0))
    /\ UNCHANGED <<expr, born>>

\* lhs = src
AssignActive(lhs, src) ==
    /\ Apply(storeActiveReal(lhs, src), [written EXCEPT ![lhs] = written[src]],
             Call("storeActive", lhs, src, 0, VarRef(src), VarRef(src), 0))
    /\ UNCHANGED <<expr, born>>

\* lhs = s, for a right hand side s with at least one operation: the nodes are
\* constructed, then the general store runs, then the temporaries die.
AssignExpr(lhs, s) ==
    /\ LET rhs == Construct(s)
       IN  Apply(storeRhs(lhs, rhs),
                 [written EXCEPT ![lhs] = Tangent(s, val, grad)],
                 Call("store", lhs, lhs, 0, s, rhs, 0))
    /\ UNCHANGED <<expr, born>>

\* A direct pushJacobi(grad[h], val[w], grad[w]).
CallPushJacobiUnit(h, w) ==
    /\ Apply(Outcome(val, [grad EXCEPT ![h] = pushJacobiUnit(grad[h], val[w], grad[w])],
                     <<>>),
             [written EXCEPT ![h] = written[h] + written[w]],
             Call("pushJacobiUnit", h, w, 1, None, None, 0))
    /\ UNCHANGED <<expr, born>>

\* A direct pushJacobi(grad[h], j, val[w], grad[w]).
CallPushJacobi(h, j, w) ==
    /\ Apply(Outcome(val, [grad EXCEPT ![h] = pushJacobi(grad[h], j, val[w], grad[w])],
                     <<>>),
             [written EXCEPT ![h] = written[h] + j * written[w]],
             Call("pushJacobi", h, w, j, None, None, 0))
    /\ UNCHANGED <<expr, born>>

\* The caller moves on to its next statement.
Return ==
    /\ ~Idle
    /\ last' = NoCall
    /\ calls' = <<>>
    /\ UNCHANGED <<val, grad, written, expr, born>>

Next ==
    \/ \E h \in Vars : CallInitGradientData(h)
    \/ \E h \in Vars : CallDestroyGradientData(h)
    \/ \E h \in Vars, t \in Seeds : CallSetGradient(h, t)
    \/ \E h \in Vars : CallGetGradient(h)
    \/ \E h \in Vars : CallGradient(h)
    \/ \E lhs \in Vars, c \in Consts : AssignPassive(lhs, c)
    \/ \E lhs \in Vars, src \in Vars : AssignActive(lhs, src)
    \/ \E lhs \in Vars, s \in RhsShapes : AssignExpr(lhs, s)
    \/ \E h \in Vars, w \in Vars : CallPushJacobiUnit(h, w)
    \/ \E h \in Vars, w \in Vars, j \in Seeds : CallPushJacobi(h, j, w)
    \/ Return

Spec == Init /\ [][Next]_vars

\* ------------------------------------------- an expression that is kept
\* The primal side: an expression object that outlives the statement that
\* built it, while its operand variables are assigned to.  No tangent is
\* seeded here, so every tangent stays zero.

\* auto e = s: the nodes are constructed now and live until Release.  born
\* notes, for every node, the value the source expression has at this moment.
Hold(s) ==
    /\ Idle
    /\ expr = None
    /\ expr' = Construct(s)
    /\ born' = [p \in Paths(s) |-> Eval(Sub(s, p), val)]
    /\ UNCHANGED <<val, grad, written, last, calls>>

\* lhs = e, for the kept expression e.
StoreHeld(lhs) ==
    /\ expr # None
    /\ Apply(storeRhs(lhs, expr), [written EXCEPT ![lhs] = NodeTangent(expr)],
             Call("storeHeld", lhs, lhs, 0, None, expr, 0))
    /\ UNCHANGED <<expr, born>>

\* e.getValue()
QueryValue ==
    /\ expr # None
    /\ Apply(Outcome(val, grad, <<>>), written,
             Call("getValue", "x", "x", 0, None, expr, GetValue(expr)))
    /\ UNCHANGED <<expr, born>>

\* e goes out of scope.
Release ==
    /\ Idle
    /\ expr # None
    /\ expr' = None
    /\ born' = <<>>
    /\ UNCHANGED <<val, grad, written, last, calls>>

NextHeld ==
    \/ \E s \in RhsShapes : Hold(s)
    \/ \E lhs \in Vars : StoreHeld(lhs)
    \/ QueryValue
    \/ Release
    \/ \E lhs \in Vars, c \in Consts : AssignPassive(lhs, c)
    \/ \E lhs \in Vars, src \in Vars : AssignActive(lhs, src)
    \/ Return

SpecHeld == Init /\ [][NextHeld]_vars

\* ----------------------------------------------------- auxiliary notions

RECURSIVE Depth(_)
Depth(s) ==
    CASE s.kind = "un" -> 1 + Depth(s.a)
      [] s.kind = "add" ->
           1 + (IF Depth(s.a) > Depth(s.b) THEN Depth(s.a) ELSE Depth(s.b))
      [] OTHER -> 0

\* A chain: unary nodes nested over one leaf.
RECURSIVE IsChain(_)
IsChain(s) ==
    CASE s.kind = "un" -> IsChain(s.a)
      [] s.kind = "add" -> FALSE
      [] OTHER -> TRUE

RECURSIVE ChainLeaf(_)
ChainLeaf(s) == IF s.kind = "un" THEN ChainLeaf(s.a) ELSE s.var

\* The product of the local derivatives along a chain, each taken at its
\* operand's value and its own result.
RECURSIVE ChainProduct(_, _)
ChainProduct(s, v) ==
    IF s.kind = "un"
    THEN GRADIENT_FUNC(s.op, Eval(s.a, v), Eval(s, v)) * ChainProduct(s.a, v)
    ELSE 1

\* The local derivative of a constructed unary node.
LocalGrad(n) == GRADIENT_FUNC(n.op, GetValue(n.a), n.result)

CalcIdx == {i \in 1..Len(calls) : calls[i].fn = "calcGradient"}
PushIdx == {i \in 1..Len(calls) : calls[i].fn = "pushJacobi"}

\* The sum of the contributions pushed, in the order of the log.
RECURSIVE SumPushed(_)
SumPushed(log) ==
    IF log = <<>> THEN 0
    ELSE (IF Head(log).fn = "pushJacobi" THEN Head(log).mult * Head(log).tan ELSE 0)
         + SumPushed(Tail(log))

\* A general store (lhs = expression) has just returned.
Stored == last.op = "store"

\* ------------------------------------------------------------------ claims

\* C1: after the general store returns, the primal value of the lhs equals
\* rhs.getValue().
C1_StoreSetsValue == Stored => val[last.h] = GetValue(last.rhs)

\* C2: chain rule.  After the general store of a chain of unary nodes over a
\* leaf, the tangent of the lhs is the product of the local derivatives times
\* the tangent the leaf had, and that product is the Jacobian pushed at the
\* leaf; and whenever a unary node's calcGradient ran (with multiplier m, or
\* without: m = 1), its operand's two-argument calcGradient received exactly
\* (local derivative * m).
C2_ChainRule ==
    Stored =>
      /\ IsChain(last.shape) =>
           /\ grad[last.h] =
                ChainProduct(last.shape, last.preVal)
                  * last.preGrad[ChainLeaf(last.shape)]
           /\ Cardinality(PushIdx) = 1
           /\ \A i \in PushIdx :
                /\ calls[i].mult = ChainProduct(last.shape, last.preVal)
                /\ calls[i].tan = last.preGrad[ChainLeaf(last.shape)]
      /\ \A i \in CalcIdx :
           Sub(last.rhs, calls[i].path).kind = "un" =>
             \E j \in CalcIdx :
               /\ calls[j].path = calls[i].path \o <<1>>
               /\ ~calls[j].one
               /\ calls[j].mult =
                    LocalGrad(Sub(last.rhs, calls[i].path))
                      * (IF calls[i].one THEN 1 ELSE calls[i].mult)

\* A chain of two nodes was stored, with non-zero derivatives and tangent.
C2_Witness ==
    /\ Stored
    /\ IsChain(last.shape)
    /\ Depth(last.shape) = 2
    /\ last.shape.op # last.shape.a.op
    /\ last.preGrad[ChainLeaf(last.shape)] # 0
    /\ grad[last.h] \notin {0, last.preGrad[ChainLeaf(last.shape)]}

\* C3: pushJacobi accumulates by addition.  A direct pushJacobi leaves
\* acc + t (unit Jacobian) or acc + j * t; after a general store the lhs holds
\* the content it was reset to plus the sum of all contributions pushed; and
\* y = x + x leaves twice the tangent of x.
C3_PushAccumulates ==
    /\ last.op = "pushJacobiUnit" =>
         grad[last.h] = last.preGrad[last.h] + last.preGrad[last.src]
    /\ last.op = "pushJacobi" =>
         grad[last.h] = last.preGrad[last.h] + last.arg * last.preGrad[last.src]
    /\ Stored => grad[last.h] = Zero + SumPushed(calls)
    /\ \A x \in Vars :
         (Stored /\ last.shape = [kind |-> "add", a |-> VarRef(x), b |-> VarRef(x)]) =>
           grad[last.h] = 2 * last.preGrad[x]

\* x + x was stored into a target with another tangent, x seeded with 1.
C3_Witness ==
    /\ Stored
    /\ last.shape.kind = "add"
    /\ last.shape.a = last.shape.b
    /\ last.preGrad[last.shape.a.var] = 1
    /\ last.preGrad[last.h] # 0
    /\ grad[last.h] = 2

\* C4: the general store resets before it accumulates: the tangent it leaves
\* is the total derivative carried by the rhs nodes alone, whatever the lhs
\* tangent was before.
C4_ResetBeforeAccumulate ==
    Stored => grad[last.h] = NodeTangent(last.rhs)

\* A store into a target whose prior tangent was not zero and differs from
\* the result.
C4_Witness ==
    /\ Stored
    /\ last.preGrad[last.h] # 0
    /\ grad[last.h] # 0
    /\ grad[last.h] # last.preGrad[last.h]
    /\ last.h \notin LeafVars(last.shape)

\* C5: constant neutrality: after the store of a passive constant c the
\* tangent is zero and the value is c.
C5_ConstantNeutral ==
    last.op = "storePassive" => grad[last.h] = 0 /\ val[last.h] = last.arg

\* A constant was stored over a different value and a non-zero tangent.
C5_Witness ==
    /\ last.op = "storePassive"
    /\ last.preGrad[last.h] # 0
    /\ last.preVal[last.h] # last.arg
    /\ last.arg # 0

\* C6: copy-through: the store of an active variable copies its tangent and
\* its value, invokes no propagation, and leaves the source as it was; a
\* self-assignment changes nothing.
C6_CopyThrough ==
    last.op = "storeActive" =>
      /\ grad[last.h] = last.preGrad[last.src]
      /\ val[last.h] = last.preVal[last.src]
      /\ calls = <<>>
      /\ grad[last.src] = last.preGrad[last.src]
      /\ val[last.src] = last.preVal[last.src]
      /\ last.h = last.src => (val = last.preVal /\ grad = last.preGrad)

\* A variable was copied over one with another value and another tangent.
C6_Witness ==
    /\ last.op = "storeActive"
    /\ last.h # last.src
    /\ last.preGrad[last.src] \notin {0, last.preGrad[last.h]}
    /\ last.preVal[last.src] \notin {0, last.preVal[last.h]}

\* The values of all nodes of an expression, by position.
NodeValues(e) == [p \in Paths(e) |-> GetValue(Sub(e, p))]

\* C7: primal memoization: as long as an expression lives, every node's
\* getValue() is the primal function applied to the operand's value at
\* construction, whatever was stored, propagated or assigned to the operand
\* variables since; and a getValue() query returns that value.
C7_PrimalMemoized ==
    expr # None =>
      /\ NodeValues(expr) = born
      /\ last.op = "getValue" => last.ret = born[<<>>]

\* getValue() was queried on a node whose operand variable has been given
\* another value since the construction.
C7_Witness ==
    /\ last.op = "getValue"
    /\ expr.kind = "un"
    /\ expr.a.kind = "leaf"
    /\ val[expr.a.var] # expr.a.value
    /\ last.ret # PRIMAL_CALL(expr.op, val[expr.a.var])

\* C8: single-pass propagation: in one general store calcGradient runs at
\* most once on each node and exactly once on every node of the rhs, every
\* unary node calls its operand exactly once, every leaf pushes exactly once;
\* for a chain the number of calcGradient calls on operation nodes is the
\* nesting depth (one more call reaches the leaf).
C8_SinglePass ==
    Stored =>
      /\ \A i, j \in CalcIdx : calls[i].path = calls[j].path => i = j
      /\ {calls[i].path : i \in CalcIdx} = Paths(last.rhs)
      /\ \A p \in Paths(last.rhs) :
           Sub(last.rhs, p).kind = "un" =>
             Cardinality({i \in CalcIdx : calls[i].path = p \o <<1>>}) = 1
      /\ \A p \in Paths(last.rhs) :
           Cardinality({i \in PushIdx : calls[i].path = p}) =
             (IF Sub(last.rhs, p).kind = "leaf" THEN 1 ELSE 0)
      /\ IsChain(last.rhs) =>
           /\ Cardinality(CalcIdx) = Depth(last.rhs) + 1
           /\ Cardinality({i \in CalcIdx : Sub(last.rhs, calls[i].path).kind = "un"})
                = Depth(last.rhs)

\* A chain of two nodes was propagated: three calcGradient calls, one push.
C8_Witness ==
    /\ Stored
    /\ IsChain(last.rhs)
    /\ Depth(last.rhs) = 2
    /\ Cardinality(CalcIdx) = 3
    /\ Cardinality(PushIdx) = 1

\* C9: the gradient handle is a plain register: it always holds the content
\* most recently written to it (zero by initGradientData or a constant store,
\* v by setGradient, the tangent by a store); initGradientData leaves the
\* value, destroyGradientData leaves value and handle, getGradient returns
\* the content and modifies nothing.
C9_PlainRegister ==
    /\ grad = written
    /\ last.op = "initGradientData" => grad[last.h] = 0 /\ val = last.preVal
    /\ last.op = "destroyGradientData" => val = last.preVal /\ grad = last.preGrad
    /\ last.op = "setGradient" => grad[last.h] = last.arg
    /\ last.op \in {"getGradient", "gradient"} =>
         /\ last.ret = written[last.h]
         /\ grad = last.preGrad
         /\ val = last.preVal

\* getGradient returned a tangent that no setGradient of the model writes: one
\* left by a store or by pushes.
C9_Witness ==
    /\ last.op = "getGradient"
    /\ last.ret \notin Seeds

\* C10: self-assignment through an expression: when the lhs occurs as a leaf
\* of the rhs, the tangent stored is the derivative of the rhs at the values
\* and tangents the variables had before the store, the same as for any other
\* target; for x = f(x) it is f'(v) times the tangent x had.
C10_SelfAssignment ==
    (Stored /\ last.h \in LeafVars(last.shape)) =>
      /\ grad[last.h] = Tangent(last.shape, last.preVal, last.preGrad)
      /\ (last.shape.kind = "un" /\ last.shape.a = VarRef(last.h)) =>
           grad[last.h] =
             GRADIENT_FUNC(last.shape.op, last.preVal[last.h],
                           PRIMAL_CALL(last.shape.op, last.preVal[last.h]))
               * last.preGrad[last.h]

\* x = f(x) was stored with x seeded and f'(v) not zero.
C10_Witness ==
    /\ Stored
    /\ last.shape.kind = "un"
    /\ last.shape.a = VarRef(last.h)
    /\ last.preGrad[last.h] # 0
    /\ grad[last.h] \notin {0, last.preGrad[last.h]}

====
